---- MODULE Spec2Model ----
(***************************************************************************)
(* State-machine model of the GL resource factory (src/src/factory.rs):    *)
(* the Factory, its two handle managers, the handles callers hold and the  *)
(* part of the GL context the Factory's native calls read and write.       *)
(***************************************************************************)
EXTENDS Integers, Sequences, FiniteSets, TLC

(* ------------------------------ bounds --------------------------------- *)
\* resources created after the main frame buffer
MaxRes == 2
\* live handles to one resource at a time
MaxHeld == 2
\* largest buffer size / data length, in bytes
MaxSize == 1
\* largest texture or surface dimension and mip-level count
MaxDim == 1
\* mapped views a caller keeps at a time
MaxViews == 1

(* --------------------------- value domains ------------------------------ *)
Byte == 0..1
Dim == 0..MaxDim
Sizes == 0..MaxSize

BufferRole == {"Vertex", "Index"}
BufferUsage == {"Static", "Dynamic", "Stream"}
MapAccess == {"Readable", "Writable", "RW"}
Stage == {"Vertex", "Fragment"}
Format == {"RGBA8", "SRGB8_A8"}
TextureKind == {"Texture2D", "TextureCube"}
SamplerInfo == {"Scale", "Bilinear"}

\* byte strings of a given length, and of every length up to MaxSize
BytesOfLen(n) == [1..n -> Byte]
Bytes == UNION {BytesOfLen(n) : n \in Sizes}

BufferInfo == [role : BufferRole, usage : BufferUsage, size : Sizes]
SurfaceInfo == [width : Dim, height : Dim, levels : Dim, format : Format]
TextureInfo == [width : Dim, height : Dim, levels : Dim, format : Format, kind : TextureKind]
NoInfo == [none |-> TRUE]
ProgramInfo == [program |-> TRUE]

Capabilities ==
    [array_buffer_supported : BOOLEAN,
     render_targets_supported : BOOLEAN,
     sampler_objects_supported : BOOLEAN,
     immutable_storage_supported : BOOLEAN,
     srgb_color_supported : BOOLEAN]

\* info.format.does_convert_gamma()
does_convert_gamma(format) == format = "SRGB8_A8"

\* the resource kinds, in the order clean_with sweeps them
Kinds == <<"Buffer", "ArrayBuffer", "Shader", "Program",
           "FrameBuffer", "Surface", "Texture", "Sampler">>

(* ------------------------------- state ---------------------------------- *)
VARIABLES
    caps,           \* Factory.caps
    debug,          \* whether debug assertions are compiled in
    gl,             \* the GL context behind Factory.gl
    res,            \* every resource registered so far: uid -> (kind, name, info)
    held,           \* uid -> number of live handles (the Factory's main_fbo included)
    handles,        \* Factory.handles: uids tracked by the persistent manager
    frame_handles,  \* Factory.frame_handles: uids resolved since the last cleanup
    destroyCount,   \* uid -> native destroy calls issued for the entry
    views,          \* RawMapping values the caller holds
    budget,         \* how many resources the caller creates at most
    last            \* the most recent operation, its arguments and its result

vars == <<caps, debug, budget, gl, res, held, handles, frame_handles, destroyCount, views, last>>

\* uid of the entry made by handles.make_frame_buffer(0) in create()
main_fbo == 1

NoView == [pointer |-> 0, target |-> "none"]

Op(op, arg, result, handle, view, log) ==
    [op |-> op, arg |-> arg, result |-> result, handle |-> handle, view |-> view, log |-> log]

Aborted == last.result = "panic"

(* ------------------------- the GL context ------------------------------- *)
\* alive : native objects handed to the Factory and not yet deleted
\* bound : buffer bound to each buffer target (0: none)
\* data  : buffer name -> contents of its data store
\* mapped: buffers whose data store is mapped
\* calls : native calls issued by the operation in progress
Call(g, fn, arg) == [g EXCEPT !.calls = Append(@, [fn |-> fn, arg |-> arg])]

Begin(g) == [g EXCEPT !.calls = <<>>]

Min(S) == CHOOSE n \in S : \A m \in S : n <= m

\* the name a glGen*/glCreate* call returns: one not in use for that kind
\* (the least such name, so that a deleted name is handed out again at once)
FreshName(g, kind) == Min({n \in 1..(Cardinality(g.alive) + 1) : <<kind, n>> \notin g.alive})

Gen(g, fn, kind) ==
    Call([g EXCEPT !.alive = @ \cup {<<kind, FreshName(g, kind)>>}], fn, FreshName(g, kind))

BindBuffer(g, target, buffer) == Call([g EXCEPT !.bound[target] = buffer], "BindBuffer", buffer)

\* glBufferData(target, size, NULL, usage): a new data store of `size` bytes
\* whose contents are not specified
BufferData(g, target, size, contents) ==
    LET b == g.bound[target] IN
    Call(IF b = 0 THEN g
         ELSE [g EXCEPT !.data = [n \in DOMAIN @ \cup {b} |-> IF n = b THEN contents ELSE @[n]],
                        !.mapped = @ \ {b}],
         "BufferData", b)

\* glBufferSubData(target, offset, size, address): a range outside the data
\* store is a GL error that writes nothing
BufferSubData(g, target, offset, bytes) ==
    LET b == g.bound[target] IN
    Call(IF b \in DOMAIN g.data /\ offset + Len(bytes) <= Len(g.data[b])
         THEN [g EXCEPT !.data[b] =
                  [i \in 1..Len(@) |->
                      IF i > offset /\ i <= offset + Len(bytes) THEN bytes[i - offset] ELSE @[i]]]
         ELSE g,
         "BufferSubData", b)

\* glMapBuffer(target, access): the pointer is the data store of the buffer
\* bound to target, null when none is bound
MapBuffer(g, target) ==
    LET b == g.bound[target] IN
    Call(IF b \in DOMAIN g.data THEN [g EXCEPT !.mapped = @ \cup {b}] ELSE g, "MapBuffer", b)

MapPointer(g, target) == IF g.bound[target] \in DOMAIN g.data THEN g.bound[target] ELSE 0

UnmapBuffer(g, target) ==
    Call([g EXCEPT !.mapped = @ \ {g.bound[target]}], "UnmapBuffer", g.bound[target])

\* which kind of object each glDelete* call deletes
DeletedKind(fn) ==
    CASE fn = "DeleteBuffers" -> "Buffer"
      [] fn = "DeleteVertexArrays" -> "ArrayBuffer"
      [] fn = "DeleteShader" -> "Shader"
      [] fn = "DeleteProgram" -> "Program"
      [] fn = "DeleteFramebuffers" -> "FrameBuffer"
      [] fn = "DeleteRenderbuffers" -> "Surface"
      [] fn = "DeleteTextures" -> "Texture"
      [] fn = "DeleteSamplers" -> "Sampler"

DeleteCalls ==
    {"DeleteBuffers", "DeleteVertexArrays", "DeleteShader", "DeleteProgram",
     "DeleteFramebuffers", "DeleteRenderbuffers", "DeleteTextures", "DeleteSamplers"}

\* glDelete*(name): name 0 is silently ignored; a deleted buffer loses its
\* data store and its bindings
Delete(g, fn, name) ==
    LET k == DeletedKind(fn)
        g1 == [g EXCEPT !.alive = @ \ {<<k, name>>}]
        g2 == IF k = "Buffer" /\ name # 0
              THEN [g1 EXCEPT !.data = [n \in DOMAIN @ \ {name} |-> @[n]],
                              !.mapped = @ \ {name},
                              !.bound = [t \in DOMAIN @ |-> IF @[t] = name THEN 0 ELSE @[t]]]
              ELSE g1
    IN Call(g2, fn, name)

(* ------------------------- the handle managers -------------------------- *)
\* handles the caller holds (the Factory keeps one to the main frame buffer)
CallerHeld(u) == held[u] - (IF u = main_fbo THEN 1 ELSE 0)

HeldOf(kind) == {u \in 1..Len(res) : res[u].kind = kind /\ CallerHeld(u) > 0}

CanCreate == Len(res) < 1 + budget

\* Manager::make_<kind>(name, info): a new entry with one handle
make(kind, name, info) ==
    /\ res' = Append(res, [kind |-> kind, name |-> name, info |-> info])
    /\ held' = Append(held, 1)
    /\ destroyCount' = Append(destroyCount, 0)
    /\ handles' = handles \cup {Len(res) + 1}

NoRegistration == UNCHANGED <<res, held, destroyCount, handles>>

\* Manager::ref_<kind>(handle): the raw name, noted in the manager
ref(manager, u) == manager \cup {u}

\* entries of the manager that no handle refers to
Unreferenced(manager) == {u \in manager : held[u] = 0}


\* Manager::clean_with, one kind: the destructor runs on every entry without
\* a handle, in the order the entries were made
RECURSIVE clean_vec(_, _, _)
clean_vec(g, dead, fn) ==
    IF dead = {} THEN g
    ELSE clean_vec(Delete(g, fn, res[Min(dead)].name), dead \ {Min(dead)}, fn)

(* ------------------------------ Factory --------------------------------- *)
\* create(caps, gl): the main frame buffer is registered with name 0 and the
\* Factory keeps its handle
create(c) ==
    /\ caps = c
    /\ gl = [alive |-> {}, bound |-> [t \in {"ARRAY_BUFFER", "ELEMENT_ARRAY_BUFFER"} |-> 0],
             data |-> <<>>, mapped |-> {}, calls |-> <<>>]
    /\ res = <<[kind |-> "FrameBuffer", name |-> 0, info |-> NoInfo]>>
    /\ held = <<1>>
    /\ destroyCount = <<0>>
    /\ handles = {main_fbo}
    /\ frame_handles = {}
    /\ views = {}
    /\ last = Op("create", NoInfo, "Ok", main_fbo, NoView, "None")

\* the bind target update_sub_buffer derives from the role
role_target(role) ==
    CASE role = "Vertex" -> "ARRAY_BUFFER"
      [] role = "Index" -> "ELEMENT_ARRAY_BUFFER"

\* update_sub_buffer that uploads without binding the buffer first
update_sub_buffer_unbound(g, buffer, bytes, offset, role) ==
    BufferSubData(g, role_target(role), offset, bytes)

update_sub_buffer(g, buffer, bytes, offset, role) ==
    BufferSubData(BindBuffer(g, role_target(role), buffer), role_target(role), offset, bytes)

create_buffer_internal(g) == Gen(g, "GenBuffers", "Buffer")

init_buffer(g, buffer, info, contents) ==
    LET target == CASE info.role = "Vertex" -> "ARRAY_BUFFER"
                    [] info.role = "Index" -> "ELEMENT_ARRAY_BUFFER"
    IN BufferData(BindBuffer(g, target, buffer), target, info.size, contents)

get_main_frame_buffer ==
    /\ ~Aborted
    /\ held[main_fbo] < MaxHeld + 1
    /\ held' = [held EXCEPT ![main_fbo] = @ + 1]
    /\ gl' = Begin(gl)
    /\ last' = Op("get_main_frame_buffer", NoInfo, "Ok", main_fbo, NoView, "None")
    /\ UNCHANGED <<caps, debug, budget, res, handles, frame_handles, destroyCount, views>>

make_fake_output(w, h) ==
    /\ ~Aborted
    /\ held[main_fbo] < MaxHeld + 1
    /\ held' = [held EXCEPT ![main_fbo] = @ + 1]
    /\ gl' = Begin(gl)
    /\ last' = Op("make_fake_output", [width |-> w, height |-> h], "Ok", main_fbo, NoView, "None")
    /\ UNCHANGED <<caps, debug, budget, res, handles, frame_handles, destroyCount, views>>

\* `contents` is what the unspecified new data store happens to hold
create_buffer_raw(size, usage, contents) ==
    /\ ~Aborted
    /\ CanCreate
    /\ LET g0 == Begin(gl)
           name == FreshName(g0, "Buffer")
           info == [role |-> "Vertex", usage |-> usage, size |-> size]
       IN /\ gl' = init_buffer(create_buffer_internal(g0), name, info, contents)
          /\ make("Buffer", name, info)
          /\ last' = Op("create_buffer_raw", info, "Ok", Len(res) + 1, NoView, "None")
    /\ UNCHANGED <<caps, debug, budget, frame_handles, views>>

\* create_buffer_static_raw that allocates the buffer and never uploads data
create_buffer_static_raw_no_upload(data, role, contents) ==
    /\ ~Aborted
    /\ CanCreate
    /\ LET g0 == Begin(gl)
           name == FreshName(g0, "Buffer")
           info == [role |-> role, usage |-> "Static", size |-> Len(data)]
       IN /\ gl' = init_buffer(create_buffer_internal(g0), name, info, contents)
          /\ make("Buffer", name, info)
          /\ last' = Op("create_buffer_static_raw", [data |-> data, role |-> role],
                        "Ok", Len(res) + 1, NoView, "None")
    /\ UNCHANGED <<caps, debug, budget, frame_handles, views>>

create_buffer_static_raw(data, role, contents) ==
    /\ ~Aborted
    /\ CanCreate
    /\ LET g0 == Begin(gl)
           name == FreshName(g0, "Buffer")
           info == [role |-> role, usage |-> "Static", size |-> Len(data)]
           g1 == init_buffer(create_buffer_internal(g0), name, info, contents)
       IN /\ gl' = update_sub_buffer(g1, name, data, 0, role)
          /\ make("Buffer", name, info)
          /\ last' = Op("create_buffer_static_raw", [data |-> data, role |-> role],
                        "Ok", Len(res) + 1, NoView, "None")
    /\ UNCHANGED <<caps, debug, budget, frame_handles, views>>

\* create_array_buffer without the capability check
create_array_buffer_unchecked ==
    /\ ~Aborted
    /\ CanCreate
    /\ gl' = Gen(Begin(gl), "GenVertexArrays", "ArrayBuffer")
    /\ make("ArrayBuffer", FreshName(gl, "ArrayBuffer"), NoInfo)
    /\ last' = Op("create_array_buffer", NoInfo, "Ok", Len(res) + 1, NoView, "None")
    /\ UNCHANGED <<caps, debug, budget, frame_handles, views>>

create_array_buffer ==
    /\ ~Aborted
    /\ IF caps.array_buffer_supported
       THEN /\ CanCreate
            /\ gl' = Gen(Begin(gl), "GenVertexArrays", "ArrayBuffer")
            /\ make("ArrayBuffer", FreshName(gl, "ArrayBuffer"), NoInfo)
            /\ last' = Op("create_array_buffer", NoInfo, "Ok", Len(res) + 1, NoView, "None")
       ELSE /\ gl' = Begin(gl)
            /\ NoRegistration
            /\ last' = Op("create_array_buffer", NoInfo, "Err", 0, NoView, "Error")
    /\ UNCHANGED <<caps, debug, budget, frame_handles, views>>

\* the severities the wrong way round
log_level_swapped(ok, haslog) ==
    IF haslog THEN (IF ~ok THEN "Warn" ELSE "Error") ELSE "None"

\* the severity create_shader and create_program log the diagnostics at
log_level(ok, haslog) ==
    IF haslog THEN (IF ~ok THEN "Error" ELSE "Warn") ELSE "None"

\* ::shade::create_shader: a compiled object or a failure, with optional log
shade_create_shader(g, ok) ==
    IF ok THEN Call(Gen(g, "CreateShader", "Shader"), "CompileShader", FreshName(g, "Shader"))
    ELSE Call(Call(g, "CreateShader", 0), "CompileShader", 0)

create_shader(stage, ok, haslog) ==
    /\ ~Aborted
    /\ ok => CanCreate
    /\ gl' = shade_create_shader(Begin(gl), ok)
    /\ IF ok THEN make("Shader", FreshName(gl, "Shader"), [stage |-> stage])
       ELSE NoRegistration
    /\ last' = Op("create_shader", [stage |-> stage],
                  IF ok THEN "Ok" ELSE "ShaderCompilationFailed",
                  IF ok THEN Len(res) + 1 ELSE 0, NoView, log_level(ok, haslog))
    /\ UNCHANGED <<caps, debug, budget, frame_handles, views>>

\* ::shade::create_program: a linked program or a failure, with optional log
shade_create_program(g, ok) ==
    IF ok THEN Call(Gen(g, "CreateProgram", "Program"), "LinkProgram", FreshName(g, "Program"))
    ELSE Call(Call(g, "CreateProgram", 0), "LinkProgram", 0)

\* create_program that deletes the shader objects once the program is linked
create_program_deleting(shaders, ok, haslog) ==
    /\ ~Aborted
    /\ ok => CanCreate
    /\ frame_handles' = frame_handles \cup shaders
    /\ gl' = clean_vec(shade_create_program(Begin(gl), ok), shaders, "DeleteShader")
    /\ IF ok THEN make("Program", FreshName(gl, "Program"), ProgramInfo)
       ELSE NoRegistration
    /\ last' = Op("create_program", [shaders |-> shaders], IF ok THEN "Ok" ELSE "Err",
                  IF ok THEN Len(res) + 1 ELSE 0, NoView, log_level(ok, haslog))
    /\ UNCHANGED <<caps, debug, budget, views>>

create_program(shaders, ok, haslog) ==
    /\ ~Aborted
    /\ ok => CanCreate
    /\ frame_handles' = frame_handles \cup shaders
    /\ gl' = shade_create_program(Begin(gl), ok)
    /\ IF ok THEN make("Program", FreshName(gl, "Program"), ProgramInfo)
       ELSE NoRegistration
    /\ last' = Op("create_program", [shaders |-> shaders], IF ok THEN "Ok" ELSE "Err",
                  IF ok THEN Len(res) + 1 ELSE 0, NoView, log_level(ok, haslog))
    /\ UNCHANGED <<caps, debug, budget, views>>

\* create_frame_buffer that makes the native call before it checks the
\* capability
create_frame_buffer_late_check ==
    /\ ~Aborted
    /\ IF ~caps.render_targets_supported
       THEN /\ gl' = Call(Begin(gl), "GenFramebuffers", 0)
            /\ NoRegistration
            /\ last' = Op("create_frame_buffer", NoInfo, "panic", 0, NoView, "None")
       ELSE /\ CanCreate
            /\ gl' = Gen(Begin(gl), "GenFramebuffers", "FrameBuffer")
            /\ make("FrameBuffer", FreshName(gl, "FrameBuffer"), NoInfo)
            /\ last' = Op("create_frame_buffer", NoInfo, "Ok", Len(res) + 1, NoView, "None")
    /\ UNCHANGED <<caps, debug, budget, frame_handles, views>>

\* create_frame_buffer that registers the default identifier instead of the
\* generated one
create_frame_buffer_default_name ==
    /\ ~Aborted
    /\ IF ~caps.render_targets_supported
       THEN /\ gl' = Begin(gl)
            /\ NoRegistration
            /\ last' = Op("create_frame_buffer", NoInfo, "panic", 0, NoView, "None")
       ELSE /\ CanCreate
            /\ gl' = Gen(Begin(gl), "GenFramebuffers", "FrameBuffer")
            /\ make("FrameBuffer", 0, NoInfo)
            /\ last' = Op("create_frame_buffer", NoInfo, "Ok", Len(res) + 1, NoView, "None")
    /\ UNCHANGED <<caps, debug, budget, frame_handles, views>>

create_frame_buffer ==
    /\ ~Aborted
    /\ IF ~caps.render_targets_supported
       THEN /\ gl' = Begin(gl)
            /\ NoRegistration
            /\ last' = Op("create_frame_buffer", NoInfo, "panic", 0, NoView, "None")
       ELSE /\ CanCreate
            /\ gl' = Gen(Begin(gl), "GenFramebuffers", "FrameBuffer")
            /\ make("FrameBuffer", FreshName(gl, "FrameBuffer"), NoInfo)
            /\ last' = Op("create_frame_buffer", NoInfo, "Ok", Len(res) + 1, NoView, "None")
    /\ UNCHANGED <<caps, debug, budget, frame_handles, views>>


\* the gamma check with the capability test inverted
surface_guard_inverted(info) ==
    IF does_convert_gamma(info.format) /\ caps.srgb_color_supported
    THEN "UnsupportedGamma"
    ELSE "Pass"

\* the Factory's own checks before tex::make_surface is called
surface_guard(info) ==
    IF does_convert_gamma(info.format) /\ ~caps.srgb_color_supported
    THEN "UnsupportedGamma"
    ELSE "Pass"

\* tex::make_surface: render-buffer storage, or the format is not supported
tex_make_surface(g, ok) ==
    IF ok
    THEN Call(Gen(g, "GenRenderbuffers", "Surface"), "RenderbufferStorage", FreshName(g, "Surface"))
    ELSE Call(g, "GenRenderbuffers", 0)

create_surface(info, ok) ==
    /\ ~Aborted
    /\ IF surface_guard(info) # "Pass"
       THEN /\ gl' = Begin(gl)
            /\ NoRegistration
            /\ last' = Op("create_surface", info, surface_guard(info), 0, NoView, "None")
       ELSE /\ ok => CanCreate
            /\ gl' = tex_make_surface(Begin(gl), ok)
            /\ IF ok THEN make("Surface", FreshName(gl, "Surface"), info) ELSE NoRegistration
            /\ last' = Op("create_surface", info, IF ok THEN "Ok" ELSE "UnsupportedFormat",
                          IF ok THEN Len(res) + 1 ELSE 0, NoView, "None")
    /\ UNCHANGED <<caps, debug, budget, frame_handles, views>>

\* the texture checks with the gamma check made first
texture_guard_gamma_first(info) ==
    IF does_convert_gamma(info.format) /\ ~caps.srgb_color_supported
    THEN "UnsupportedGamma"
    ELSE IF info.width = 0 \/ info.height = 0 \/ info.levels = 0
         THEN "InvalidInfo"
         ELSE "Pass"

\* the texture checks with the gamma check ignoring the capability
texture_guard_any_gamma(info) ==
    IF info.width = 0 \/ info.height = 0 \/ info.levels = 0
    THEN "InvalidInfo"
    ELSE IF does_convert_gamma(info.format)
         THEN "UnsupportedGamma"
         ELSE "Pass"

\* the Factory's own checks before the texture is made
texture_guard(info) ==
    IF info.width = 0 \/ info.height = 0 \/ info.levels = 0
    THEN "InvalidInfo"
    ELSE IF does_convert_gamma(info.format) /\ ~caps.srgb_color_supported
         THEN "UnsupportedGamma"
         ELSE "Pass"

\* tex::make_with_storage: immutable storage allocated up front
tex_make_with_storage(g, ok) ==
    IF ok
    THEN Call(Gen(g, "GenTextures", "Texture"), "TexStorage", FreshName(g, "Texture"))
    ELSE Call(g, "GenTextures", 0)

\* tex::make_without_storage: mutable storage, level by level
tex_make_without_storage(g, ok) ==
    IF ok
    THEN Call(Gen(g, "GenTextures", "Texture"), "TexImage", FreshName(g, "Texture"))
    ELSE Call(g, "GenTextures", 0)

\* create_texture that refuses the texture when immutable storage is missing
create_texture_storage_only(info, ok) ==
    /\ ~Aborted
    /\ IF texture_guard(info) # "Pass"
       THEN /\ gl' = Begin(gl)
            /\ NoRegistration
            /\ last' = Op("create_texture", info, texture_guard(info), 0, NoView, "None")
       ELSE /\ ok => CanCreate
            /\ gl' = IF caps.immutable_storage_supported
                     THEN tex_make_with_storage(Begin(gl), ok)
                     ELSE Begin(gl)
            /\ IF ok /\ caps.immutable_storage_supported
               THEN make("Texture", FreshName(gl, "Texture"), info)
               ELSE NoRegistration
            /\ last' = Op("create_texture", info,
                          IF ok /\ caps.immutable_storage_supported THEN "Ok" ELSE "UnsupportedFormat",
                          IF ok /\ caps.immutable_storage_supported THEN Len(res) + 1 ELSE 0,
                          NoView, "None")
    /\ UNCHANGED <<caps, debug, budget, frame_handles, views>>

create_texture(info, ok) ==
    /\ ~Aborted
    /\ IF texture_guard(info) # "Pass"
       THEN /\ gl' = Begin(gl)
            /\ NoRegistration
            /\ last' = Op("create_texture", info, texture_guard(info), 0, NoView, "None")
       ELSE /\ ok => CanCreate
            /\ gl' = IF caps.immutable_storage_supported
                     THEN tex_make_with_storage(Begin(gl), ok)
                     ELSE tex_make_without_storage(Begin(gl), ok)
            /\ IF ok THEN make("Texture", FreshName(gl, "Texture"), info) ELSE NoRegistration
            /\ last' = Op("create_texture", info, IF ok THEN "Ok" ELSE "UnsupportedFormat",
                          IF ok THEN Len(res) + 1 ELSE 0, NoView, "None")
    /\ UNCHANGED <<caps, debug, budget, frame_handles, views>>

\* tex::make_sampler: a new sampler object
tex_make_sampler(g) == Call(Gen(g, "GenSamplers", "Sampler"), "SamplerParameter", FreshName(g, "Sampler"))

\* create_sampler that makes a sampler object whatever the capability
create_sampler_unchecked(info) ==
    /\ ~Aborted
    /\ CanCreate
    /\ gl' = tex_make_sampler(Begin(gl))
    /\ make("Sampler", FreshName(gl, "Sampler"), info)
    /\ last' = Op("create_sampler", info, "Ok", Len(res) + 1, NoView, "None")
    /\ UNCHANGED <<caps, debug, budget, frame_handles, views>>

create_sampler(info) ==
    /\ ~Aborted
    /\ CanCreate
    /\ LET sam == IF caps.sampler_objects_supported THEN FreshName(gl, "Sampler") ELSE 0
       IN /\ gl' = IF caps.sampler_objects_supported
                   THEN tex_make_sampler(Begin(gl))
                   ELSE Begin(gl)
          /\ make("Sampler", sam, info)
          /\ last' = Op("create_sampler", info, "Ok", Len(res) + 1, NoView, "None")
    /\ UNCHANGED <<caps, debug, budget, frame_handles, views>>

\* the assertion with a strict comparison
update_assertion_strict(u, data, offset_bytes) == offset_bytes + Len(data) < res[u].info.size

\* debug_assert!(offset_bytes + data.len() <= buffer.get_info().size)
update_assertion(u, data, offset_bytes) == offset_bytes + Len(data) <= res[u].info.size

update_buffer_raw(u, data, offset_bytes) ==
    /\ ~Aborted
    /\ u \in HeldOf("Buffer")
    /\ IF debug /\ ~update_assertion(u, data, offset_bytes)
       THEN /\ gl' = Begin(gl)
            /\ last' = Op("update_buffer_raw", [buf |-> u, data |-> data, offset |-> offset_bytes],
                          "panic", 0, NoView, "None")
            /\ UNCHANGED frame_handles
       ELSE /\ frame_handles' = ref(frame_handles, u)
            /\ gl' = update_sub_buffer(Begin(gl), res[u].name, data, offset_bytes, res[u].info.role)
            /\ last' = Op("update_buffer_raw", [buf |-> u, data |-> data, offset |-> offset_bytes],
                          "Ok", u, NoView, "None")
    /\ UNCHANGED <<caps, debug, budget, res, held, handles, destroyCount, views>>

\* update_texture_raw that records the override kind in the texture's info
update_texture_raw_recording(u, optkind, ok) ==
    /\ ~Aborted
    /\ u \in HeldOf("Texture")
    /\ LET kind == IF optkind = "None" THEN res[u].info.kind ELSE optkind
       IN /\ frame_handles' = ref(frame_handles, u)
          /\ gl' = Call(Call(Begin(gl), "BindTexture", res[u].name), "TexSubImage", res[u].name)
          /\ res' = [res EXCEPT ![u].info.kind = kind]
          /\ last' = Op("update_texture_raw", [tex |-> u, optkind |-> optkind, kind |-> kind],
                        IF ok THEN "Ok" ELSE "Err", u, NoView, "None")
    /\ UNCHANGED <<caps, debug, budget, held, handles, destroyCount, views>>

\* tex::update_texture: uploads into the texture as one of `kind`, or fails
update_texture_raw(u, optkind, ok) ==
    /\ ~Aborted
    /\ u \in HeldOf("Texture")
    /\ LET kind == IF optkind = "None" THEN res[u].info.kind ELSE optkind
       IN /\ frame_handles' = ref(frame_handles, u)
          /\ gl' = Call(Call(Begin(gl), "BindTexture", res[u].name), "TexSubImage", res[u].name)
          /\ last' = Op("update_texture_raw", [tex |-> u, optkind |-> optkind, kind |-> kind],
                        IF ok THEN "Ok" ELSE "Err", u, NoView, "None")
    /\ UNCHANGED <<caps, debug, budget, res, held, handles, destroyCount, views>>

generate_mipmap(u) ==
    /\ ~Aborted
    /\ u \in HeldOf("Texture")
    /\ frame_handles' = ref(frame_handles, u)
    /\ gl' = Call(Call(Begin(gl), "BindTexture", res[u].name), "GenerateMipmap", res[u].name)
    /\ last' = Op("generate_mipmap", [tex |-> u, kind |-> res[u].info.kind], "Ok", u, NoView, "None")
    /\ UNCHANGED <<caps, debug, budget, res, held, handles, destroyCount, views>>

\* the update_buffer_raw call on buffer u that the operation now starting
\* directly follows (buf = 0: there is none)
UpdateJustBefore(u) ==
    IF last.op = "update_buffer_raw" /\ last.result = "Ok" /\ last.arg.buf = u
    THEN last.arg
    ELSE [buf |-> 0, data |-> <<>>, offset |-> 0]

map_buffer_raw(u, access) ==
    /\ ~Aborted
    /\ u \in HeldOf("Buffer")
    /\ LET g1 == BindBuffer(Begin(gl), "ARRAY_BUFFER", res[u].name)
           map == [pointer |-> MapPointer(g1, "ARRAY_BUFFER"), target |-> "ARRAY_BUFFER"]
       IN /\ Cardinality(views \cup {map}) <= MaxViews
          /\ frame_handles' = ref(frame_handles, u)
          /\ gl' = MapBuffer(g1, "ARRAY_BUFFER")
          /\ views' = views \cup {map}
          /\ last' = Op("map_buffer_raw",
                        [buf |-> u, access |-> access, follows |-> UpdateJustBefore(u)],
                        "Ok", u, map, "None")
    /\ UNCHANGED <<caps, debug, budget, res, held, handles, destroyCount>>

unmap_buffer_raw(map) ==
    /\ ~Aborted
    /\ map \in views
    /\ gl' = UnmapBuffer(Begin(gl), map.target)
    /\ views' = views \ {map}
    /\ last' = Op("unmap_buffer_raw", NoInfo, "Ok", 0, map, "None")
    /\ UNCHANGED <<caps, debug, budget, res, held, handles, frame_handles, destroyCount>>

\* RawMapping::to_slice: the bytes behind the view's pointer
to_slice(g, map) == IF map.pointer \in DOMAIN g.data THEN g.data[map.pointer] ELSE <<>>

\* cleanup with the shader and program destructors handed over in each
\* other's place
destroy_fn_swapped(kind) ==
    CASE kind = "Buffer" -> "DeleteBuffers"
      [] kind = "ArrayBuffer" -> "DeleteVertexArrays"
      [] kind = "Shader" -> "DeleteProgram"
      [] kind = "Program" -> "DeleteShader"
      [] kind = "FrameBuffer" -> "DeleteFramebuffers"
      [] kind = "Surface" -> "DeleteRenderbuffers"
      [] kind = "Texture" -> "DeleteTextures"
      [] kind = "Sampler" -> "DeleteSamplers"

\* the destructor cleanup hands to clean_with for each kind
destroy_fn(kind) ==
    CASE kind = "Buffer" -> "DeleteBuffers"
      [] kind = "ArrayBuffer" -> "DeleteVertexArrays"
      [] kind = "Shader" -> "DeleteShader"
      [] kind = "Program" -> "DeleteProgram"
      [] kind = "FrameBuffer" -> "DeleteFramebuffers"
      [] kind = "Surface" -> "DeleteRenderbuffers"
      [] kind = "Texture" -> "DeleteTextures"
      [] kind = "Sampler" -> "DeleteSamplers"

\* Manager::clean_with: every kind in turn, from kind number k on
RECURSIVE clean_with(_, _, _)
clean_with(g, manager, k) ==
    IF k > Len(Kinds) THEN g
    ELSE clean_with(clean_vec(g, {u \in Unreferenced(manager) : res[u].kind = Kinds[k]},
                              destroy_fn(Kinds[k])),
                    manager, k + 1)

\* cleanup that sweeps every entry no caller holds, the Factory's own handle
\* not counted
cleanup_unheld_by_caller ==
    /\ ~Aborted
    /\ gl' = clean_vec(Begin(gl), {u \in handles : CallerHeld(u) = 0 /\ res[u].kind = "FrameBuffer"},
                       "DeleteFramebuffers")
    /\ destroyCount' = [u \in 1..Len(res) |->
                           IF u \in handles /\ CallerHeld(u) = 0 THEN destroyCount[u] + 1
                           ELSE destroyCount[u]]
    /\ handles' = {u \in handles : CallerHeld(u) > 0}
    /\ frame_handles' = {}
    /\ last' = Op("cleanup", NoInfo, "Ok", 0, NoView, "None")
    /\ UNCHANGED <<caps, debug, budget, res, held, views>>

\* cleanup that clears the frame-scoped manager and sweeps nothing
cleanup_frame_only ==
    /\ ~Aborted
    /\ gl' = Begin(gl)
    /\ frame_handles' = {}
    /\ last' = Op("cleanup", NoInfo, "Ok", 0, NoView, "None")
    /\ UNCHANGED <<caps, debug, budget, res, held, handles, destroyCount, views>>

\* cleanup that sweeps the persistent manager and leaves the frame-scoped
\* one as it is
cleanup_keeping_frame ==
    /\ ~Aborted
    /\ gl' = clean_with(Begin(gl), handles, 1)
    /\ destroyCount' = [u \in 1..Len(res) |->
                           IF u \in Unreferenced(handles) THEN destroyCount[u] + 1
                           ELSE destroyCount[u]]
    /\ handles' = handles \ Unreferenced(handles)
    /\ frame_handles' = frame_handles
    /\ last' = Op("cleanup", NoInfo, "Ok", 0, NoView, "None")
    /\ UNCHANGED <<caps, debug, budget, res, held, views>>

cleanup ==
    /\ ~Aborted
    /\ gl' = clean_with(Begin(gl), handles, 1)
    /\ destroyCount' = [u \in 1..Len(res) |->
                           IF u \in Unreferenced(handles) THEN destroyCount[u] + 1
                           ELSE destroyCount[u]]
    /\ handles' = handles \ Unreferenced(handles)
    /\ frame_handles' = {}
    /\ last' = Op("cleanup", NoInfo, "Ok", 0, NoView, "None")
    /\ UNCHANGED <<caps, debug, budget, res, held, views>>

(* -------------------------- the caller's handles ------------------------ *)
\* Handle::clone
clone(u) ==
    /\ ~Aborted
    /\ u \in 1..Len(res)
    /\ CallerHeld(u) > 0
    /\ CallerHeld(u) < MaxHeld
    /\ held' = [held EXCEPT ![u] = @ + 1]
    /\ gl' = Begin(gl)
    /\ last' = Op("clone", NoInfo, "Ok", u, NoView, "None")
    /\ UNCHANGED <<caps, debug, budget, res, handles, frame_handles, destroyCount, views>>

\* a handle (or an Output holding one) goes out of scope
drop(u) ==
    /\ ~Aborted
    /\ u \in 1..Len(res)
    /\ CallerHeld(u) > 0
    /\ held' = [held EXCEPT ![u] = @ - 1]
    /\ gl' = Begin(gl)
    /\ last' = Op("drop", NoInfo, "Ok", u, NoView, "None")
    /\ UNCHANGED <<caps, debug, budget, res, handles, frame_handles, destroyCount, views>>

(* --------------------------- specifications ----------------------------- *)
Uids == 1..(MaxRes + 1)

\* a device with every optional feature, and one with none
AllCaps(b) ==
    [array_buffer_supported |-> b, render_targets_supported |-> b,
     sampler_objects_supported |-> b, immutable_storage_supported |-> b,
     srgb_color_supported |-> b]

\* the life of a resource of every kind: creation, clones, drops, cleanup
Init ==
    /\ \E b \in BOOLEAN : create(AllCaps(b))
    /\ debug = TRUE
    /\ budget = MaxRes

Next ==
    \/ create_buffer_raw(0, "Dynamic", <<>>)
    \/ create_array_buffer
    \/ \E ok \in BOOLEAN : create_shader("Vertex", ok, ~ok)
    \/ \E ok \in BOOLEAN : create_program(HeldOf("Shader"), ok, ~ok)
    \/ create_frame_buffer
    \/ create_surface([width |-> 1, height |-> 1, levels |-> 1, format |-> "RGBA8"], TRUE)
    \/ create_texture([width |-> 1, height |-> 1, levels |-> 1, format |-> "RGBA8",
                       kind |-> "Texture2D"], TRUE)
    \/ create_sampler("Scale")
    \/ \E u \in Uids : clone(u)
    \/ \E u \in Uids : drop(u)
    \/ cleanup

Spec == Init /\ [][Next]_vars


\* surfaces and textures of every description on every device; one creation
\* is judged at a time
InitTex ==
    /\ \E c \in Capabilities : create(c)
    /\ debug = TRUE
    /\ budget = 1

NextTex ==
    \/ CanCreate /\ \E info \in SurfaceInfo, ok \in BOOLEAN : create_surface(info, ok)
    \/ CanCreate /\ \E info \in TextureInfo, ok \in BOOLEAN : create_texture(info, ok)
    \/ \E u \in Uids : drop(u)
    \/ cleanup

SpecTex == InitTex /\ [][NextTex]_vars

\* the creations that depend on one capability flag each, on every device
InitCaps ==
    /\ \E c \in Capabilities : create(c)
    /\ debug = TRUE
    /\ budget = MaxRes

NextCaps ==
    \/ \E info \in SamplerInfo : create_sampler(info)
    \/ create_array_buffer
    \/ create_frame_buffer
    \/ \E u \in Uids : drop(u)
    \/ cleanup

SpecCaps == InitCaps /\ [][NextCaps]_vars

\* buffers of both roles: creation, raw updates within the buffer's size,
\* mapping and unmapping
InitBuf ==
    /\ create(AllCaps(TRUE))
    /\ debug = TRUE
    /\ budget = 2

NextBuf ==
    \/ \E size \in Sizes : \E c \in BytesOfLen(size) : create_buffer_raw(size, "Dynamic", c)
    \/ \E data \in Bytes, role \in BufferRole : \E c \in BytesOfLen(Len(data)) :
          create_buffer_static_raw(data, role, c)
    \/ \E u \in Uids, data \in Bytes, offset \in Sizes :
          /\ u \in HeldOf("Buffer")
          /\ update_assertion(u, data, offset)
          /\ update_buffer_raw(u, data, offset)
    \/ \E u \in Uids, access \in MapAccess : map_buffer_raw(u, access)
    \/ \E map \in views : unmap_buffer_raw(map)

SpecBuf == InitBuf /\ [][NextBuf]_vars

(* ------------------------------- claims --------------------------------- *)
Created == 1..Len(res)

\* the native object of resource u
Native(u) == <<res[u].kind, res[u].name>>

DeletesIn(calls) == {i \in DOMAIN calls : calls[i].fn \in DeleteCalls}

\* C1: the native destroy call of a created resource is issued at most once,
\* never while a handle to it is live (its native object stays alive as long
\* as one is), and once cleanup has run every resource without a handle has
\* had exactly one destroy call, which deleted its native object.
C1_DestroyedOnceAfterLastDrop ==
    /\ \A u \in Created :
          /\ destroyCount[u] <= 1
          /\ destroyCount[u] = 1 => held[u] = 0
          /\ (held[u] > 0 /\ res[u].name # 0) => Native(u) \in gl.alive
          /\ (last.op = "cleanup" /\ held[u] = 0) =>
                /\ destroyCount[u] = 1
                /\ Native(u) \in gl.alive => \E v \in handles : Native(v) = Native(u)
    /\ \A i \in DeletesIn(gl.calls) :
          \E u \in Created :
             /\ held[u] = 0
             /\ destroyCount[u] = 1
             /\ Native(u) = <<DeletedKind(gl.calls[i].fn), gl.calls[i].arg>>

\* a cleanup destroyed one resource, all of whose handles were dropped, while
\* another with a cloned handle survived it
C1_Witness ==
    /\ last.op = "cleanup"
    /\ Len(gl.calls) = 1
    /\ \E u \in Created : destroyCount[u] = 1
    /\ \E v \in Created \ {main_fbo} : held[v] = 2 /\ v \in handles /\ Native(v) \in gl.alive

ZeroSized(info) == info.width = 0 \/ info.height = 0 \/ info.levels = 0

\* the step registers nothing with the persistent manager
RegistersNothing == handles' = handles /\ res' = res /\ held' = held

\* the step registers handle h, the first handle of a new entry for native
\* identifier `name`
Registers(h, kind, name, info) ==
    /\ h = Len(res) + 1
    /\ res' = Append(res, [kind |-> kind, name |-> name, info |-> info])
    /\ handles' = handles \cup {h}
    /\ held' = Append(held, 1)

\* C3: create_texture with a zero width, height or level count returns
\* InvalidInfo on every device and for every format, issues no native call
\* and registers nothing.
C3_ZeroTextureInvalidInfo ==
    [][(last'.op = "create_texture" /\ ZeroSized(last'.arg)) =>
          /\ last'.result = "InvalidInfo"
          /\ gl'.calls = <<>>
          /\ gl'.alive = gl.alive
          /\ RegistersNothing]_vars

\* a zero-sized texture of a gamma-converting format was refused as invalid on
\* a device without sRGB support
C3_Witness ==
    /\ last.op = "create_texture"
    /\ ZeroSized(last.arg)
    /\ does_convert_gamma(last.arg.format)
    /\ ~caps.srgb_color_supported
    /\ last.result = "InvalidInfo"

\* C4: create_surface with a zero width, height or level count fails with an
\* invalid-parameter error, with no native call and nothing registered.
C4_ZeroSurfaceInvalidInfo ==
    (last.op = "create_surface" /\ ZeroSized(last.arg)) =>
        /\ last.result = "InvalidInfo"
        /\ gl.calls = <<>>
        /\ last.handle = 0

\* C5 as stated: without sRGB support every create_surface and create_texture
\* of a gamma-converting format fails with UnsupportedGamma and no native
\* call, whatever the dimensions and levels are.
C5_GammaAlwaysUnsupported ==
    (/\ last.op \in {"create_surface", "create_texture"}
     /\ ~caps.srgb_color_supported
     /\ does_convert_gamma(last.arg.format)) =>
        /\ last.result = "UnsupportedGamma"
        /\ gl.calls = <<>>

\* C5 amended: without sRGB support every create_surface, and every
\* create_texture with non-zero width, height and levels, of a
\* gamma-converting format fails with UnsupportedGamma, issues no native call
\* and registers nothing.
C5_GammaUnsupportedUnlessZeroTexture ==
    [][(/\ last'.op \in {"create_surface", "create_texture"}
        /\ ~caps.srgb_color_supported
        /\ does_convert_gamma(last'.arg.format)
        /\ last'.op = "create_texture" => ~ZeroSized(last'.arg)) =>
          /\ last'.result = "UnsupportedGamma"
          /\ gl'.calls = <<>>
          /\ RegistersNothing]_vars

\* a zero-sized surface of a gamma-converting format was refused for its gamma
C5_Witness ==
    /\ last.op = "create_surface"
    /\ ZeroSized(last.arg)
    /\ does_convert_gamma(last.arg.format)
    /\ ~caps.srgb_color_supported
    /\ last.result = "UnsupportedGamma"

\* C6: create_surface and create_texture return UnsupportedGamma only for a
\* gamma-converting format on a device without sRGB support.
C6_UnsupportedGammaOnlyForGamma ==
    (/\ last.op \in {"create_surface", "create_texture"}
     /\ last.result = "UnsupportedGamma") =>
        /\ does_convert_gamma(last.arg.format)
        /\ ~caps.srgb_color_supported

\* a texture of a gamma-converting format was created on a device with sRGB
\* support
C6_Witness ==
    /\ last.op = "create_texture"
    /\ does_convert_gamma(last.arg.format)
    /\ caps.srgb_color_supported
    /\ last.result = "Ok"
    /\ last.handle \in handles

\* C7: create_sampler always succeeds and registers a handle carrying the
\* supplied info; without sampler objects it issues no native call and the
\* identifier is 0, with them the identifier is the new sampler object's.
C7_SamplerDegradesToZero ==
    [][last'.op = "create_sampler" =>
          /\ last'.result = "Ok"
          /\ IF caps.sampler_objects_supported
             THEN /\ Len(gl'.calls) >= 1
                  /\ gl'.calls[1].fn = "GenSamplers"
                  /\ gl'.calls[1].arg # 0
                  /\ <<"Sampler", gl'.calls[1].arg>> \in gl'.alive \ gl.alive
                  /\ Registers(last'.handle, "Sampler", gl'.calls[1].arg, last'.arg)
             ELSE /\ gl'.calls = <<>>
                  /\ gl'.alive = gl.alive
                  /\ Registers(last'.handle, "Sampler", 0, last'.arg)]_vars

\* a second sampler with identifier 0 was registered on a device without
\* sampler objects
C7_Witness ==
    /\ last.op = "create_sampler"
    /\ ~caps.sampler_objects_supported
    /\ last.handle \in handles
    /\ res[last.handle].name = 0
    /\ \E u \in handles \ {last.handle} : res[u].kind = "Sampler" /\ res[u].name = 0

\* C8: create_array_buffer without array-buffer support returns the error,
\* issues no native call and leaves the persistent manager unchanged; with it,
\* it issues exactly one GenVertexArrays call and registers the generated
\* identifier.
C8_ArrayBufferNeedsSupport ==
    [][last'.op = "create_array_buffer" =>
          IF caps.array_buffer_supported
          THEN /\ last'.result = "Ok"
               /\ Len(gl'.calls) = 1
               /\ gl'.calls[1].fn = "GenVertexArrays"
               /\ gl'.calls[1].arg # 0
               /\ Registers(last'.handle, "ArrayBuffer", gl'.calls[1].arg, NoInfo)
          ELSE /\ last'.result = "Err"
               /\ gl'.calls = <<>>
               /\ gl'.alive = gl.alive
               /\ RegistersNothing]_vars

\* an array buffer was refused on a device without array-buffer support that
\* already tracks another resource
C8_Witness ==
    /\ last.op = "create_array_buffer"
    /\ ~caps.array_buffer_supported
    /\ last.result = "Err"
    /\ Cardinality(handles) > 1

\* C9: create_frame_buffer without render-target support aborts: there is no
\* result, no native call, nothing registered and nothing runs afterwards;
\* with render-target support it never aborts and registers the identifier
\* GenFramebuffers produced.
C9_FrameBufferFatalWithoutTargets ==
    [][/\ ~Aborted
       /\ last'.op = "create_frame_buffer" =>
             IF caps.render_targets_supported
             THEN /\ last'.result = "Ok"
                  /\ Len(gl'.calls) = 1
                  /\ gl'.calls[1].fn = "GenFramebuffers"
                  /\ gl'.calls[1].arg # 0
                  /\ Registers(last'.handle, "FrameBuffer", gl'.calls[1].arg, NoInfo)
             ELSE /\ last'.result = "panic"
                  /\ last'.handle = 0
                  /\ gl'.calls = <<>>
                  /\ gl'.alive = gl.alive
                  /\ RegistersNothing]_vars

\* the Factory aborted in create_frame_buffer on a device without render
\* targets, after other resources had been created
C9_Witness ==
    /\ last.op = "create_frame_buffer"
    /\ ~caps.render_targets_supported
    /\ Aborted
    /\ Len(res) > 1

RawRead(g, u) ==
    LET g1 == BindBuffer(g, "ARRAY_BUFFER", res[u].name)
    IN to_slice(MapBuffer(g1, "ARRAY_BUFFER"),
                [pointer |-> MapPointer(g1, "ARRAY_BUFFER"), target |-> "ARRAY_BUFFER"])

\* C11: create_buffer_static_raw(data, role) returns a handle to a new entry
\* whose info is exactly {role, usage Static, size = length of data}, and the
\* native buffer then holds exactly data from offset 0: a raw read of size
\* bytes returns data.
C11_StaticBufferHoldsData ==
    last.op = "create_buffer_static_raw" =>
        /\ last.result = "Ok"
        /\ last.handle = Len(res)
        /\ last.handle \in handles
        /\ res[last.handle].kind = "Buffer"
        /\ res[last.handle].info =
              [role |-> last.arg.role, usage |-> "Static", size |-> Len(last.arg.data)]
        /\ gl.data[res[last.handle].name] = last.arg.data
        /\ RawRead(gl, last.handle) = last.arg.data

\* a non-empty static index buffer was created next to another buffer
C11_Witness ==
    /\ last.op = "create_buffer_static_raw"
    /\ last.arg.role = "Index"
    /\ Len(last.arg.data) >= 1
    /\ last.arg.data[1] = 1
    /\ Cardinality(DOMAIN gl.data) = 2

\* raw updates of every offset and length, in range or not, in a build with
\* debug assertions and in one without
InitUpd ==
    /\ create(AllCaps(TRUE))
    /\ debug \in BOOLEAN
    /\ budget = 2

NextUpd ==
    \/ \E size \in Sizes : \E c \in BytesOfLen(size) : create_buffer_raw(size, "Dynamic", c)
    \/ \E data \in Bytes : create_buffer_static_raw(data, "Index", data)
    \/ \E u \in Uids, data \in Bytes, offset \in Sizes : update_buffer_raw(u, data, offset)

SpecUpd == InitUpd /\ [][NextUpd]_vars

\* the update_buffer_raw call a step makes is out of the buffer's range
OutOfRange(arg) == arg.offset + Len(arg.data) > res[arg.buf].info.size

\* C12 as stated: every update_buffer_raw with offset_bytes + data length
\* beyond the buffer's recorded size fails the assertion before the handle is
\* resolved and before any native call, leaving the contents unchanged; an
\* update within the size never fails it.
C12_OutOfRangeUpdateAlwaysDetected ==
    [][last'.op = "update_buffer_raw" =>
          IF OutOfRange(last'.arg)
          THEN /\ last'.result = "panic"
               /\ frame_handles' = frame_handles
               /\ gl'.calls = <<>>
               /\ gl'.data = gl.data
          ELSE last'.result = "Ok"]_vars

\* C12, amended: in a build with debug assertions an out-of-range
\* update_buffer_raw fails the assertion before the handle is resolved and
\* before any native call, contents unchanged; in a build without them the
\* same call resolves the handle and issues the bind and the upload with the
\* out-of-range arguments; an update within the size never fails the
\* assertion in either build.
C12_OutOfRangeUpdateDetectedInDebugBuild ==
    [][last'.op = "update_buffer_raw" =>
          IF OutOfRange(last'.arg)
          THEN IF debug
               THEN /\ last'.result = "panic"
                    /\ frame_handles' = frame_handles
                    /\ gl'.calls = <<>>
                    /\ gl'.data = gl.data
               ELSE /\ last'.result = "Ok"
                    /\ last'.arg.buf \in frame_handles'
                    /\ Len(gl'.calls) = 2
                    /\ gl'.calls[1].fn = "BindBuffer"
                    /\ gl'.calls[2].fn = "BufferSubData"
          ELSE /\ last'.result = "Ok"
               /\ last'.arg.buf \in frame_handles'
               /\ Len(gl'.calls) = 2]_vars

\* the assertion stopped an upload of a byte the buffer does not hold, one
\* past the end of a one-byte buffer never resolved before
C12_Witness ==
    /\ debug
    /\ last.op = "update_buffer_raw"
    /\ last.result = "panic"
    /\ last.arg.offset = 1
    /\ Len(last.arg.data) = 1
    /\ res[last.arg.buf].info.size = 1
    /\ gl.data[res[last.arg.buf].name] # last.arg.data
    /\ last.arg.buf \notin frame_handles
    /\ gl.calls = <<>>

\* two live entries of the persistent manager of one kind with one identifier
SharedIdentifier(u, v) ==
    /\ u # v
    /\ res[u].kind = res[v].kind
    /\ res[u].name = res[v].name

\* C13 as stated: no two live entries of the persistent manager of the same
\* kind have the same identifier, on any device, samplers without sampler
\* objects and frame buffers next to the main one included.
C13_IdentifiersNeverShared ==
    \A u \in handles, v \in handles : ~SharedIdentifier(u, v)

\* C13, amended: every registration with a non-zero identifier uses one that
\* no live entry of the same kind has; identifier 0 is registered only for
\* the main frame buffer and by create_sampler on a device without sampler
\* objects, which registers 0 on every call, so that several live sampler
\* entries share it; create_frame_buffer never registers 0.
C13_NonZeroIdentifiersNeverShared ==
    /\ \A u \in handles, v \in handles :
          SharedIdentifier(u, v) =>
              /\ res[u].name = 0
              /\ res[u].kind = "Sampler"
              /\ ~caps.sampler_objects_supported
    /\ \A u \in handles :
          res[u].name = 0 =>
              \/ u = main_fbo
              \/ res[u].kind = "Sampler" /\ ~caps.sampler_objects_supported
    /\ (last.op = "create_sampler" /\ ~caps.sampler_objects_supported) =>
          res[last.handle].name = 0

\* a frame buffer was registered next to the main one while a sampler with
\* identifier 0 is live
C13_Witness ==
    /\ last.op = "create_frame_buffer"
    /\ last.result = "Ok"
    /\ last.handle \in handles
    /\ res[last.handle].name # res[main_fbo].name
    /\ \E s \in handles : res[s].kind = "Sampler" /\ res[s].name = 0

\* shaders of both stages and programs linked from them, the collaborator
\* succeeding or failing, with diagnostic text or without
InitShade ==
    /\ create(AllCaps(TRUE))
    /\ debug = TRUE
    /\ budget = 2

NextShade ==
    \/ \E stage \in Stage, ok \in BOOLEAN, haslog \in BOOLEAN : create_shader(stage, ok, haslog)
    \/ \E shaders \in SUBSET HeldOf("Shader"), ok \in BOOLEAN, haslog \in BOOLEAN :
          create_program(shaders, ok, haslog)
    \/ \E u \in Uids : drop(u)
    \/ cleanup

SpecShade == InitShade /\ [][NextShade]_vars

\* what the step logged, given the collaborator's answer
LoggedBySeverity(ok, haslog) ==
    /\ last'.log = "Error" <=> (~ok /\ haslog)
    /\ last'.log = "Warn" <=> (ok /\ haslog)
    /\ last'.log = "None" <=> ~haslog

\* the step registered exactly one entry of the kind, with the info, and
\* returned its handle
RegisteredOne(kind, info) ==
    /\ last'.result = "Ok"
    /\ last'.handle = Len(res) + 1
    /\ Len(res') = Len(res) + 1
    /\ res'[Len(res) + 1].kind = kind
    /\ res'[Len(res) + 1].info = info
    /\ SubSeq(res', 1, Len(res)) = res
    /\ handles' = handles \cup {Len(res) + 1}
    /\ held'[Len(res) + 1] = 1

\* the step returned the error and registered nothing
RegisteredNone(error) ==
    /\ last'.result = error
    /\ last'.handle = 0
    /\ res' = res
    /\ handles' = handles
    /\ held' = held

\* C14: create_shader and create_program log the diagnostic text at error
\* severity exactly when the collaborator failed, at warning severity when
\* it succeeded with text, and log nothing when there is no text; on failure
\* they return the typed error and register no handle, on success they
\* register exactly one handle, tagged with the stage or carrying the
\* program info.
C14_DiagnosticsBySeverity ==
    [][/\ \A stage \in Stage, ok \in BOOLEAN, haslog \in BOOLEAN :
             create_shader(stage, ok, haslog) =>
                 /\ LoggedBySeverity(ok, haslog)
                 /\ IF ok THEN RegisteredOne("Shader", [stage |-> stage])
                    ELSE RegisteredNone("ShaderCompilationFailed")
       /\ \A shaders \in SUBSET HeldOf("Shader"), ok \in BOOLEAN, haslog \in BOOLEAN :
             create_program(shaders, ok, haslog) =>
                 /\ LoggedBySeverity(ok, haslog)
                 /\ IF ok THEN RegisteredOne("Program", ProgramInfo)
                    ELSE RegisteredNone("Err")]_vars

\* linking two live shaders failed with text, logged as an error, after a
\* shader had compiled
C14_Witness ==
    /\ last.op = "create_program"
    /\ last.result = "Err"
    /\ last.log = "Error"
    /\ Cardinality(last.arg.shaders) = 2
    /\ \A s \in last.arg.shaders : s \in handles /\ res[s].kind = "Shader"

\* one texture at a time on devices with and without immutable storage and
\* sRGB: creation with every description, updates with and without a kind
\* override, mipmap generation, drop and cleanup
InitTexOps ==
    /\ \E c \in Capabilities :
          /\ c.array_buffer_supported /\ c.render_targets_supported
          /\ c.sampler_objects_supported
          /\ create(c)
    /\ debug = TRUE
    /\ budget = 1

NextTexOps ==
    \/ CanCreate /\ \E info \in TextureInfo, ok \in BOOLEAN : create_texture(info, ok)
    \/ \E u \in Uids, optkind \in TextureKind \cup {"None"}, ok \in BOOLEAN :
          update_texture_raw(u, optkind, ok)
    \/ \E u \in Uids : generate_mipmap(u)
    \/ \E u \in Uids : drop(u)
    \/ cleanup

SpecTexOps == InitTexOps /\ [][NextTexOps]_vars

\* the native calls of the operation, but for which storage call was made
WithoutStorageCall(calls) ==
    [i \in DOMAIN calls |->
        IF calls[i].fn \in {"TexStorage", "TexImage"}
        THEN [fn |-> "storage", arg |-> calls[i].arg]
        ELSE calls[i]]

C16_UnmapMatchesMap ==
    [][\A map \in views :
          unmap_buffer_raw(map) =>
              /\ gl'.calls = <<[fn |-> "UnmapBuffer", arg |-> map.pointer]>>
              /\ gl.bound[map.target] = map.pointer
              /\ map.pointer \notin gl'.mapped]_vars

\* C17: after every cleanup the persistent manager holds no entry without a
\* handle, every entry that had a handle is still there and was not
\* destroyed (no destroy call names its native object, which stays alive),
\* the frame-scoped manager is empty, and the destroy calls issued are
\* exactly one for each persistent entry without a handle, none on account
\* of the frame-scoped entries.
C17_CleanupSweepsThenClears ==
    [][cleanup =>
          /\ \A u \in handles' : held'[u] > 0
          /\ \A u \in handles :
                held[u] > 0 =>
                    /\ u \in handles'
                    /\ destroyCount'[u] = destroyCount[u]
                    /\ res[u].name # 0 =>
                          /\ Native(u) \in gl'.alive
                          /\ \A i \in DOMAIN gl'.calls :
                                ~(/\ DeletedKind(gl'.calls[i].fn) = res[u].kind
                                  /\ gl'.calls[i].arg = res[u].name)
          /\ frame_handles' = {}
          /\ \A u \in frame_handles : held[u] > 0 => destroyCount'[u] = destroyCount[u]
          /\ Len(gl'.calls) = Cardinality({u \in handles : held[u] = 0})
          /\ \A i \in DOMAIN gl'.calls :
                \E u \in handles :
                    /\ held[u] = 0
                    /\ gl'.calls[i] = [fn |-> destroy_fn(res[u].kind), arg |-> res[u].name]]_vars

\* a cleanup destroyed a program and kept the live shader that linking it
\* had resolved through the frame-scoped manager
C17_Witness ==
    /\ last.op = "cleanup"
    /\ frame_handles = {}
    /\ Len(gl.calls) = 1
    /\ gl.calls[1].fn = "DeleteProgram"
    /\ \E s \in handles :
          /\ res[s].kind = "Shader" /\ held[s] > 0 /\ Native(s) \in gl.alive
          /\ \E p \in Created : p > s /\ res[p].kind = "Program" /\ destroyCount[p] = 1

\* resources that are resolved through the frame-scoped manager (a buffer by
\* update and map, a shader by linking) and then dropped, with cleanup
\* called again and again
InitLive ==
    /\ create(AllCaps(TRUE))
    /\ debug = TRUE
    /\ budget = 2

NextLive ==
    \/ create_buffer_raw(1, "Dynamic", <<0>>)
    \/ create_shader("Vertex", TRUE, FALSE)
    \/ \E ok \in BOOLEAN : create_program(HeldOf("Shader"), ok, FALSE)
    \/ \E u \in Uids : update_buffer_raw(u, <<1>>, 0)
    \/ \E u \in Uids : map_buffer_raw(u, "Readable")
    \/ \E map \in views : unmap_buffer_raw(map)
    \/ \E u \in Uids : drop(u)
    \/ cleanup

\* the caller invokes cleanup again and again
SpecLive == InitLive /\ [][NextLive]_vars /\ WF_vars(cleanup)

\* resource u was created and its last handle has been dropped
NoHandleLeft(u) == IF u \in Created THEN held[u] = 0 ELSE FALSE

\* resource u has had its destroy call and is gone from the persistent
\* manager
DestroyedAndGone(u) ==
    IF u \in Created THEN u \notin handles /\ destroyCount[u] = 1 ELSE FALSE

\* C18: once the last handle to a resource is dropped, whether or not the
\* frame-scoped manager still lists it from an update, a map or a link, the
\* next cleanup issues its native destroy call and removes its entry; and
\* with cleanup invoked repeatedly every resource without a handle is
\* eventually destroyed and gone from the persistent manager.
C18_DroppedIsEventuallyDestroyed ==
    /\ [][cleanup =>
             \A u \in handles :
                 held[u] = 0 =>
                     /\ u \notin handles'
                     /\ destroyCount'[u] = 1
                     /\ \E i \in DOMAIN gl'.calls :
                           gl'.calls[i] = [fn |-> destroy_fn(res[u].kind), arg |-> res[u].name]
                     /\ Native(u) \notin gl'.alive]_vars
    /\ \A u \in Uids : NoHandleLeft(u) ~> DestroyedAndGone(u)

\* a buffer whose last handle was dropped while the frame-scoped manager
\* still listed it is about to be swept
C18_Witness ==
    \E u \in handles :
        /\ res[u].kind = "Buffer"
        /\ held[u] = 0
        /\ u \in frame_handles
        /\ destroyCount[u] = 0
        /\ Native(u) \in gl.alive

\* C19: update_texture_raw hands the collaborator the override kind when one
\* is supplied and the recorded kind otherwise; no operation changes the
\* info recorded for a resource, so generate_mipmap and an update without
\* override use the kind recorded at creation whatever overrides came
\* before.
C19_KindOverrideIsPerCall ==
    [][/\ \A u \in Uids, optkind \in TextureKind \cup {"None"}, ok \in BOOLEAN :
             update_texture_raw(u, optkind, ok) =>
                 /\ optkind \in TextureKind => last'.arg.kind = optkind
                 /\ optkind = "None" => last'.arg.kind = res[u].info.kind
                 /\ last'.result = (IF ok THEN "Ok" ELSE "Err")
       /\ \A u \in Uids : generate_mipmap(u) => last'.arg.kind = res[u].info.kind
       /\ \A u \in Created : res'[u] = res[u]
       /\ last'.op = "create_texture" /\ last'.result = "Ok" =>
             res'[last'.handle].info = last'.arg]_vars

\* an update was made with an override that differs from the recorded kind,
\* which is still the recorded one
C19_Witness ==
    /\ last.op = "update_texture_raw"
    /\ last.arg.optkind \in TextureKind
    /\ last.arg.kind = last.arg.optkind
    /\ res[last.arg.tex].info.kind # last.arg.optkind
    /\ last.arg.tex \in frame_handles

\* the main frame buffer handed out as handles and as outputs, next to frame
\* buffers the caller creates, with clones, drops and cleanup
InitMain ==
    /\ \E b \in BOOLEAN : create(AllCaps(b))
    /\ debug = TRUE
    /\ budget = 2

NextMain ==
    \/ get_main_frame_buffer
    \/ \E w \in Dim, h \in Dim : make_fake_output(w, h)
    \/ create_frame_buffer
    \/ \E u \in Uids : clone(u)
    \/ \E u \in Uids : drop(u)
    \/ cleanup

SpecMain == InitMain /\ [][NextMain]_vars

\* C20: the main frame buffer is registered with identifier 0 and the
\* Factory holds a handle to it: in every reachable state its refcount is at
\* least 1, its entry is in the persistent manager, it has had no destroy
\* call, and no native frame-buffer destroy call for identifier 0 is issued.
C20_MainFrameBufferNeverDestroyed ==
    /\ res[main_fbo] = [kind |-> "FrameBuffer", name |-> 0, info |-> NoInfo]
    /\ held[main_fbo] >= 1
    /\ CallerHeld(main_fbo) >= 0
    /\ main_fbo \in handles
    /\ destroyCount[main_fbo] = 0
    /\ \A i \in DOMAIN gl.calls :
          ~(gl.calls[i].fn = "DeleteFramebuffers" /\ gl.calls[i].arg = 0)
    /\ last.op \in {"get_main_frame_buffer", "make_fake_output"} =>
          /\ last.handle = main_fbo
          /\ held[main_fbo] >= 2

\* every handle and output to the main frame buffer was dropped and a
\* cleanup destroyed a frame buffer the caller had created, not the main one
C20_Witness ==
    /\ last.op = "cleanup"
    /\ held[main_fbo] = 1
    /\ main_fbo \in handles
    /\ \E i \in DOMAIN gl.calls : gl.calls[i].fn = "DeleteFramebuffers" /\ gl.calls[i].arg # 0
    /\ \E u \in Created : u # main_fbo /\ res[u].kind = "FrameBuffer" /\ destroyCount[u] = 1

====
